---- MODULE Spec2Model ----
(***************************************************************************)
(* State-machine model of the todo-list application (App component).      *)
(*                                                                         *)
(* The task store `todos`, the two add inputs, the edit session, the view  *)
(* filter and the persisted 'todos' slot of localStorage are the state.    *)
(* Every handler of the component is one action; the save effect that      *)
(* React runs after each render in which `todos` changed is part of the    *)
(* action that changed it.  `mounted` tells whether the mount effects of    *)
(* the component instance have run.  A second browser tab of the same      *)
(* origin is a second instance over the same slot: `otherTab` holds its    *)
(* state while it is in the background, and the user's switching tabs      *)
(* exchanges the two instances.  `darkMode` is the theme state of the      *)
(* instance, `themeSlot` the persisted 'theme' slot and `prefersDark` what *)
(* the (prefers-color-scheme: dark) media query of the platform matches.   *)
(*                                                                         *)
(* Spec is the task list of one tab, SpecDrag the reorder scenarios on     *)
(* longer collections, SpecTabs two tabs over one slot, SpecTheme the      *)
(* theme next to the task list; the first three start in the light theme   *)
(* and leave it alone.                                                     *)
(*                                                                         *)
(* JavaScript values are modelled as tagged records [k |-> tag, v |-> n]:  *)
(*   "Date"      a Date object whose time value is v (NaN is InvalidTime)  *)
(*   "string"    for an id: the decimal numeral of v; for a date field:    *)
(*               the ISO-8601 text of the instant v                        *)
(*   "number"    the number v                                              *)
(*   "undefined" / "null"                                                  *)
(* A task is a function from the keys it owns to their values, so that a   *)
(* key that is absent and a key that holds undefined are different tasks.  *)
(* Text is a sequence of characters.                                       *)
(***************************************************************************)
EXTENDS Integers, Sequences, FiniteSets, TLC

VARIABLES todos, newTodo, newDeadline, editingId, editingText, filter, slot,
          mounted, otherTab, darkMode, themeSlot, prefersDark

vars == <<todos, newTodo, newDeadline, editingId, editingText, filter, slot,
          mounted, otherTab, darkMode, themeSlot, prefersDark>>

\* What no handler of the task list assigns.
others == <<mounted, otherTab, darkMode, themeSlot, prefersDark>>

(***************************************************************************)
(* Bounds of the model.                                                    *)
(***************************************************************************)
MaxLen == 2
MaxClock == 2
MaxDay == 1
MaxStored == 1
MaxDragLen == 4
MaxDragClock == 3
MaxTabLen == 2
MaxTabClock == 2
MaxThemeLen == 1
MaxThemeClock == 1

Clock == 1..MaxClock
DragClock == 1..MaxDragClock
TabClock == 1..MaxTabClock
ThemeClock == 1..MaxThemeClock
\* What the user types: a whitespace-only text and a text with a letter.  The empty
\* text is what the inputs hold after startup and after an add or a commit.
Texts == {<<" ">>, <<"a">>}
Filters == {"all", "active", "completed"}

(***************************************************************************)
(* JavaScript values.                                                      *)
(***************************************************************************)
InvalidTime == -1

Undefined == [k |-> "undefined", v |-> 0]
Null == [k |-> "null", v |-> 0]
DateObj(t) == [k |-> "Date", v |-> t]
Str(n) == [k |-> "string", v |-> n]
Num(n) == [k |-> "number", v |-> n]

\* Truthiness of a value held by a date field: undefined and null are falsy,
\* a Date object and a non-empty string are truthy.
Truthy(x) == x.k \notin {"undefined", "null"}

\* new Date(x)
NewDate(x) ==
  CASE x.k = "Date" -> DateObj(x.v)
    [] x.k = "string" -> DateObj(x.v)
    [] x.k = "number" -> DateObj(x.v)
    [] x.k = "null" -> DateObj(0)
    [] OTHER -> DateObj(InvalidTime)

\* String(x) applied to an id
String(x) == IF x.k = "number" THEN Str(x.v) ELSE x

\* Date.prototype.toJSON: the ISO string, or null for an invalid date
ToJSON(x) ==
  IF x.k = "Date"
    THEN IF x.v = InvalidTime THEN Null ELSE Str(x.v)
    ELSE x

IsSpace(c) == c = " "

RECURSIVE TrimStart(_)
TrimStart(s) ==
  IF s # <<>> /\ IsSpace(Head(s)) THEN TrimStart(Tail(s)) ELSE s

RECURSIVE TrimEnd(_)
TrimEnd(s) ==
  IF s # <<>> /\ IsSpace(s[Len(s)]) THEN TrimEnd(SubSeq(s, 1, Len(s) - 1)) ELSE s

\* String.prototype.trim
Trim(s) == TrimEnd(TrimStart(s))

(***************************************************************************)
(* Objects: property read, spread with overrides, rest without a key.      *)
(***************************************************************************)
Get(o, key) == IF key \in DOMAIN o THEN o[key] ELSE Undefined

With(o, key, val) ==
  [x \in DOMAIN o \cup {key} |-> IF x = key THEN val ELSE o[x]]

Without(o, key) == [x \in DOMAIN o \ {key} |-> o[x]]

\* Array.prototype.findIndex with an id test, 0-based, -1 when no element matches
FindIndex(s, id) ==
  IF \E i \in 1..Len(s) : s[i].id = id
    THEN (CHOOSE i \in 1..Len(s) : s[i].id = id /\ \A j \in 1..(i - 1) : s[j].id # id) - 1
    ELSE -1

(***************************************************************************)
(* Tasks.                                                                  *)
(***************************************************************************)
TaggedKeys == {"id", "createdAt", "completedAt", "deadline"}

\* The object literal of addTodo: id from Date.now().toString(), createdAt from
\* new Date(), deadline from the date input ('' is day 0), no completedAt key.
NewTodoObject(idNow, text, createdNow, deadlineInput) ==
  [id |-> Str(idNow),
   text |-> text,
   completed |-> FALSE,
   createdAt |-> DateObj(createdNow),
   deadline |-> IF deadlineInput # 0 THEN NewDate(Str(deadlineInput)) ELSE Undefined]

\* The object literal of addTodo in the earlier version of the component, which
\* persisted its tasks in the same slot: the id is the number Date.now().
LegacyTodoObject(idNow, text, createdNow, deadlineInput) ==
  With(NewTodoObject(idNow, text, createdNow, deadlineInput), "id", Num(idNow))

\* Mutant of ToggleOne: un-completing keeps the completedAt key.
ToggleOneKeepsDate(todo, now) ==
  IF ~todo.completed
    THEN With(With(todo, "completed", TRUE), "completedAt", DateObj(now))
    ELSE With(todo, "completed", FALSE)

\* Mutant of ToggleOne: every toggle stamps completedAt.
ToggleOneAlwaysStamps(todo, now) ==
  With(With(todo, "completed", ~todo.completed), "completedAt", DateObj(now))

\* The mapping function of toggleTodo applied to the task it targets.
ToggleOne(todo, now) ==
  IF ~todo.completed
    THEN With(With(todo, "completed", TRUE), "completedAt", DateObj(now))
    ELSE With(Without(todo, "completedAt"), "completed", FALSE)

\* A task reads as having a completion date when the property is there and truthy.
HasCompletedAt(todo) == Truthy(Get(todo, "completedAt"))

(***************************************************************************)
(* Persistence: JSON.stringify, JSON.parse and the two load paths.         *)
(***************************************************************************)
\* What localStorage.getItem('todos') can return: null when the slot is absent,
\* the empty text, a text that is not JSON, the JSON text of a value that is not
\* an array (it has no map method), the JSON text of an array of objects.
NoItem == [k |-> "null", v |-> <<>>]
EmptyText == [k |-> "empty", v |-> <<>>]
Unparseable == [k |-> "unparseable", v |-> <<>>]
NonArray == [k |-> "value", v |-> <<>>]
JsonArray(objs) == [k |-> "array", v |-> objs]

\* if (stored): null and '' are falsy
StoredTruthy(stored) == stored.k \notin {"null", "empty"}

\* JSON.stringify of one task: a property holding undefined is omitted, a Date
\* is written through toJSON, every other value is written as it is.
StringifyTodo(todo) ==
  LET kept == {x \in DOMAIN todo : x \in TaggedKeys => todo[x] # Undefined}
  IN  [x \in kept |-> IF x \in TaggedKeys THEN ToJSON(todo[x]) ELSE todo[x]]

\* JSON.stringify(todos)
Stringify(ts) == JsonArray([i \in 1..Len(ts) |-> StringifyTodo(ts[i])])

\* JSON.parse(stored) succeeds and the result has a map method over objects.
ParseOk(stored) == stored.k = "array"

\* The mapping function of the useState initializer.
InitializerOne(obj) ==
  With(With(With(obj,
    "id", String(Get(obj, "id"))),
    "createdAt", NewDate(Get(obj, "createdAt"))),
    "completedAt", IF Truthy(Get(obj, "completedAt"))
                     THEN NewDate(Get(obj, "completedAt")) ELSE Undefined)

\* Mutant of LoadEffectOne: the completion date is not reconstituted.
LoadEffectOneNoCompletedAt(obj) ==
  With(With(obj,
    "createdAt", NewDate(Get(obj, "createdAt"))),
    "completedAt", Undefined)

\* The mapping function of the mount-time load effect.
LoadEffectOne(obj) ==
  With(With(obj,
    "createdAt", NewDate(Get(obj, "createdAt"))),
    "completedAt", IF Truthy(Get(obj, "completedAt"))
                     THEN NewDate(Get(obj, "completedAt")) ELSE Undefined)

\* Mutant of InitializerTodos: a slot that does not parse is recovered as one task.
InitializerTodosRecovers(stored) ==
  IF StoredTruthy(stored)
    THEN IF ParseOk(stored)
           THEN [i \in 1..Len(stored.v) |-> InitializerOne(stored.v[i])]
           ELSE <<NewTodoObject(1, <<"a">>, 1, 0)>>
    ELSE <<>>

\* useState initializer of todos: the catch block returns [] when JSON.parse or
\* parsed.map throws
InitializerTodos(stored) ==
  IF StoredTruthy(stored) /\ ParseOk(stored)
    THEN [i \in 1..Len(stored.v) |-> InitializerOne(stored.v[i])]
    ELSE <<>>

\* The store once the mount effects have run and their update is rendered: the
\* load effect replaces the initializer's result when the slot parses.
StartupTodos(stored) ==
  IF StoredTruthy(stored) /\ ParseOk(stored)
    THEN [i \in 1..Len(stored.v) |-> LoadEffectOne(stored.v[i])]
    ELSE InitializerTodos(stored)

\* Mutant of SaveEffect: the new serialization is appended to the old contents.
SaveEffectMerge(ts) ==
  slot' = JsonArray((IF slot.k = "array" THEN slot.v ELSE <<>>) \o Stringify(ts).v)

\* Mutant of SaveEffect: a longer stored collection is not overwritten.
SaveEffectKeepsLonger(ts) ==
  slot' = IF slot.k = "array" /\ Len(slot.v) > Len(ts) THEN slot ELSE Stringify(ts)

\* Mutant of SaveEffect: an empty collection is not written.
SaveEffectSkipsEmpty(ts) ==
  slot' = IF ts = <<>> THEN slot ELSE Stringify(ts)

\* The save effect, run after a render in which todos changed.
SaveEffect(ts) == slot' = Stringify(ts)

(***************************************************************************)
(* View filter.                                                            *)
(***************************************************************************)
\* Mutant of Shown: the active view lets completed tasks through.
ShownActiveShowsAll(todo, f) ==
  CASE f = "all" -> TRUE
    [] f = "active" -> TRUE
    [] f = "completed" -> todo.completed
    [] OTHER -> TRUE

Shown(todo, f) ==
  CASE f = "all" -> TRUE
    [] f = "active" -> ~todo.completed
    [] f = "completed" -> todo.completed
    [] OTHER -> TRUE

FilterTodos(ts, f) == SelectSeq(ts, LAMBDA todo : Shown(todo, f))

filteredTodos == FilterTodos(todos, filter)

\* The ids of the rendered rows: the only tasks a handler can be invoked for.
RenderedIds == {filteredTodos[i].id : i \in 1..Len(filteredTodos)}

\* The counters of the summary line.
total == Len(todos)
active == Len(SelectSeq(todos, LAMBDA t : ~t.completed))
completed == Len(SelectSeq(todos, LAMBDA t : t.completed))

(***************************************************************************)
(* arrayMove of @dnd-kit/sortable:                                         *)
(*   const newArray = array.slice();                                       *)
(*   newArray.splice(to < 0 ? newArray.length + to : to, 0,                *)
(*                   newArray.splice(from, 1)[0]);                         *)
(* Indices are 0-based; the insertion position is computed before the      *)
(* element is taken out.                                                   *)
(***************************************************************************)
Min(a, b) == IF a < b THEN a ELSE b
Max(a, b) == IF a > b THEN a ELSE b

\* Mutant of arrayMove: the two elements are exchanged.
arrayMoveSwap(array, from, to) ==
  LET n == Len(array)
      pos == IF to < 0 THEN n + to ELSE to
      src == IF from < 0 THEN n + from ELSE from
  IN  [i \in 1..n |->
         IF i = src + 1 THEN array[pos + 1]
         ELSE IF i = pos + 1 THEN array[src + 1]
         ELSE array[i]]

arrayMove(array, from, to) ==
  LET n == Len(array)
      pos == IF to < 0 THEN n + to ELSE to
      src == IF from < 0 THEN Max(n + from, 0) ELSE from
      item == array[src + 1]
      rest == SubSeq(array, 1, src) \o SubSeq(array, src + 2, n)
      at == Min(Max(pos, 0), Len(rest))
  IN  SubSeq(rest, 1, at) \o <<item>> \o SubSeq(rest, at + 1, Len(rest))

(***************************************************************************)
(* Theme.                                                                  *)
(***************************************************************************)
\* What localStorage.getItem('theme') can return.
NoTheme == [k |-> "null", v |-> ""]
Theme(name) == [k |-> "string", v |-> name]

\* The 'theme' slot is absent on the first visit; the application writes
\* 'dark' or 'light' to it.
ThemeSlots == {NoTheme, Theme("dark"), Theme("light")}

\* Mutant of DarkModeInitializer: the stored theme is not consulted.
DarkModeInitializerIgnoresStored(stored, matches) == matches

\* useState initializer of darkMode; matches is what matchMedia reports
DarkModeInitializer(stored, matches) ==
  IF stored.k # "null" /\ stored.v # "" THEN stored.v = "dark" ELSE matches

\* The effect on darkMode writes the theme to the slot.
ThemeEffect(dm) == themeSlot' = Theme(IF dm THEN "dark" ELSE "light")

\* The state of the theme after construction over the slot contents `stored`.
ThemeConstructedFrom(stored) ==
  /\ themeSlot = stored
  /\ darkMode = DarkModeInitializer(stored, prefersDark)

\* The light theme is stored and the platform does not ask for the dark one.
ThemeLight ==
  /\ prefersDark = FALSE
  /\ ThemeConstructedFrom(Theme("light"))

\* onClick of the theme button, and the theme effect of the render it causes
setDarkMode ==
  /\ darkMode' = ~darkMode
  /\ ThemeEffect(darkMode')
  /\ UNCHANGED <<todos, newTodo, newDeadline, editingId, editingText, filter, slot,
                 mounted, otherTab, prefersDark>>

(***************************************************************************)
(* Startup.  The component is constructed over the persisted slot: the     *)
(* initializer computes todos from it.  The mount effects then run in      *)
(* declaration order (the theme effect writes the 'theme' slot, the load   *)
(* effect queues its update, the save effect writes the initializer's      *)
(* result), and the queued update is rendered, after which the save        *)
(* effect runs again.  React runs them before it dispatches an event to a  *)
(* handler, so Mount is one step.                                          *)
(***************************************************************************)
\* The state after construction over the slot contents `stored`.
ConstructedFrom(stored) ==
  /\ todos = InitializerTodos(stored)
  /\ slot = stored
  /\ newTodo = <<>>
  /\ newDeadline = 0
  /\ editingId = Null
  /\ editingText = <<>>
  /\ filter = "all"
  /\ mounted = FALSE

\* The state once the instance constructed over `stored` is mounted.
StartupFrom(stored) ==
  /\ todos = StartupTodos(stored)
  /\ slot = Stringify(todos)
  /\ newTodo = <<>>
  /\ newDeadline = 0
  /\ editingId = Null
  /\ editingText = <<>>
  /\ filter = "all"
  /\ mounted = TRUE

\* Tasks a session of the earlier version can have left in the slot.
LegacyTasks == {LegacyTodoObject(n, <<"a">>, n, 0) : n \in Clock}

\* Collections an earlier session of the application can have left in the slot.
StoredTasks ==
  LET fresh == {NewTodoObject(n, <<"a">>, n, d) : n \in Clock, d \in 0..MaxDay}
  IN  fresh \cup {ToggleOne(t, c) : t \in fresh, c \in Clock} \cup LegacyTasks

RECURSIVE SeqsUpTo(_, _)
SeqsUpTo(S, n) ==
  IF n = 0 THEN {<<>>}
  ELSE LET shorter == SeqsUpTo(S, n - 1)
       IN  shorter \cup {Append(q, x) : q \in shorter, x \in S}

\* Slot contents that are not the serialization of a collection.
MalformedSlots == {EmptyText, Unparseable, NonArray}

InitialSlots ==
  {NoItem} \cup MalformedSlots \cup {Stringify(T) : T \in SeqsUpTo(StoredTasks, MaxStored)}

\* No second tab is open.
NoTab == [open |-> FALSE]

Init ==
  /\ \E stored \in InitialSlots : ConstructedFrom(stored)
  /\ otherTab = NoTab
  /\ ThemeLight

\* The mount effects and the render of the update the load effect queued.
Mount ==
  /\ ~mounted
  /\ todos' = StartupTodos(slot)
  /\ SaveEffect(todos')
  /\ mounted' = TRUE
  /\ ThemeEffect(darkMode)
  /\ UNCHANGED <<newTodo, newDeadline, editingId, editingText, filter, otherTab,
                 darkMode, prefersDark>>

\* The page is reloaded: a new component instance is constructed over the slot.
Reload ==
  /\ todos' = InitializerTodos(slot)
  /\ newTodo' = <<>>
  /\ newDeadline' = 0
  /\ editingId' = Null
  /\ editingText' = <<>>
  /\ filter' = "all"
  /\ mounted' = FALSE
  /\ darkMode' = DarkModeInitializer(themeSlot, prefersDark)
  /\ UNCHANGED <<slot, otherTab, themeSlot, prefersDark>>

(***************************************************************************)
(* Handlers.                                                               *)
(***************************************************************************)
\* onChange of the text input
setNewTodo(text) ==
  /\ newTodo' = text
  /\ UNCHANGED <<todos, newDeadline, editingId, editingText, filter, slot, others>>

\* onChange of the date input ('' is day 0)
setNewDeadline(day) ==
  /\ newDeadline' = day
  /\ UNCHANGED <<todos, newTodo, editingId, editingText, filter, slot, others>>

\* onClick of a filter button
setFilter(f) ==
  /\ filter' = f
  /\ UNCHANGED <<todos, newTodo, newDeadline, editingId, editingText, slot, others>>

\* Mutant of addTodoFrom: the new task is put in front.
addTodoFromPrepends(limit, clock) ==
  IF Trim(newTodo) = <<>>
    THEN UNCHANGED vars
    ELSE /\ Len(todos) < limit
         /\ \E now \in clock :
              todos' = <<NewTodoObject(now, newTodo, now, newDeadline)>> \o todos
         /\ SaveEffect(todos')
         /\ newTodo' = <<>>
         /\ newDeadline' = 0
         /\ UNCHANGED <<editingId, editingText, filter, others>>

\* Mutant of addTodoFrom: the text is compared with '' without trimming.
addTodoFromUntrimmed(limit, clock) ==
  IF newTodo = <<>>
    THEN UNCHANGED vars
    ELSE /\ Len(todos) < limit
         /\ \E now \in clock :
              todos' = Append(todos, NewTodoObject(now, newTodo, now, newDeadline))
         /\ SaveEffect(todos')
         /\ newTodo' = <<>>
         /\ newDeadline' = 0
         /\ UNCHANGED <<editingId, editingText, filter, others>>

\* addTodo with the model's cap on the length of the collection and the set of
\* values the clock can return
addTodoFrom(limit, clock) ==
  IF Trim(newTodo) = <<>>
    THEN UNCHANGED vars
    ELSE /\ Len(todos) < limit
         \* Date.now() and new Date() read the clock within one synchronous
         \* handler; the model gives both reads the same millisecond.
         /\ \E now \in clock :
              todos' = Append(todos, NewTodoObject(now, newTodo, now, newDeadline))
         /\ SaveEffect(todos')
         /\ newTodo' = <<>>
         /\ newDeadline' = 0
         /\ UNCHANGED <<editingId, editingText, filter, others>>

addTodo == addTodoFrom(MaxLen, Clock)

\* The array toggleTodo hands to setTodos.
ToggleTodos(ts, id, now) ==
  [i \in 1..Len(ts) |-> IF ts[i].id = id THEN ToggleOne(ts[i], now) ELSE ts[i]]

\* toggleTodo when new Date() reads `now`
toggleTodoAt(id, now) ==
  /\ todos' = ToggleTodos(todos, id, now)
  /\ SaveEffect(todos')
  /\ UNCHANGED <<newTodo, newDeadline, editingId, editingText, filter, others>>

toggleTodo(id) == \E now \in Clock : toggleTodoAt(id, now)

deleteTodo(id) ==
  /\ todos' = SelectSeq(todos, LAMBDA todo : todo.id # id)
  /\ SaveEffect(todos')
  /\ UNCHANGED <<newTodo, newDeadline, editingId, editingText, filter, others>>

startEditing(todo) ==
  /\ editingId' = todo.id
  /\ editingText' = todo.text
  /\ UNCHANGED <<todos, newTodo, newDeadline, filter, slot, others>>

\* onChange of the edit input, which is rendered in the row whose id is editingId
setEditingText(text) ==
  /\ editingId \in RenderedIds
  /\ editingText' = text
  /\ UNCHANGED <<todos, newTodo, newDeadline, editingId, filter, slot, others>>

submitEdit ==
  IF editingId # Null
    THEN /\ todos' = [i \in 1..Len(todos) |->
                        IF todos[i].id = editingId
                          THEN With(todos[i], "text", editingText)
                          ELSE todos[i]]
         /\ SaveEffect(todos')
         /\ editingId' = Null
         /\ editingText' = <<>>
         /\ UNCHANGED <<newTodo, newDeadline, filter, others>>
    ELSE UNCHANGED vars

cancelEdit ==
  /\ editingId' = Null
  /\ editingText' = <<>>
  /\ UNCHANGED <<todos, newTodo, newDeadline, filter, slot, others>>

\* The array handleDragEnd hands to setTodos when the two ids differ.
DragEndTodos(ts, activeId, overId) ==
  LET oldIndex == FindIndex(ts, activeId)
      newIndex == FindIndex(ts, overId)
  IN  arrayMove(ts, oldIndex, newIndex)

\* activeId is active.id; overId is over?.id, undefined when over is null
handleDragEnd(activeId, overId) ==
  IF activeId # overId
    THEN /\ todos' = DragEndTodos(todos, activeId, overId)
         /\ SaveEffect(todos')
         /\ UNCHANGED <<newTodo, newDeadline, editingId, editingText, filter, others>>
    ELSE UNCHANGED vars

\* The handlers are reachable through the rendered page of a mounted instance.
Next ==
  \/ Mount
  \/ mounted /\ Reload
  \/ mounted /\ \E text \in Texts : setNewTodo(text)
  \/ mounted /\ \E day \in 0..MaxDay : setNewDeadline(day)
  \/ mounted /\ \E f \in Filters : setFilter(f)
  \/ mounted /\ addTodo
  \/ mounted /\ \E id \in RenderedIds : toggleTodo(id)
  \/ mounted /\ \E id \in RenderedIds : deleteTodo(id)
  \/ mounted /\ \E i \in 1..Len(filteredTodos) : startEditing(filteredTodos[i])
  \/ mounted /\ \E text \in Texts : setEditingText(text)
  \/ mounted /\ submitEdit
  \/ mounted /\ cancelEdit
  \/ mounted /\ \E activeId \in RenderedIds, overId \in RenderedIds \cup {Undefined} :
                  handleDragEnd(activeId, overId)

Spec == Init /\ [][Next]_vars

(***************************************************************************)
(* The reorder scenarios: a session that starts from an empty slot, adds   *)
(* tasks with the text "a" and no deadline, completes some, filters and    *)
(* drags.  The collection may grow to MaxDragLen here and the clock has      *)
(* MaxDragClock values, so that three tasks can have three ids.            *)
(***************************************************************************)
DragInit == StartupFrom(NoItem) /\ otherTab = NoTab /\ ThemeLight

DragNext ==
  \/ setNewTodo(<<"a">>)
  \/ addTodoFrom(MaxDragLen, DragClock)
  \/ \E id \in RenderedIds : toggleTodoAt(id, 1)
  \/ \E f \in Filters : setFilter(f)
  \/ \E activeId \in RenderedIds, overId \in RenderedIds \cup {Undefined} :
       handleDragEnd(activeId, overId)

SpecDrag == DragInit /\ [][DragNext]_vars

(***************************************************************************)
(* Two tabs.  Both instances are constructed over the same slot contents;  *)
(* each has its own component state and they share the slot.  The handlers *)
(* act on the instance of the tab in front.                                *)
(***************************************************************************)
\* The component state of the instance in front.
ThisTab ==
  [open |-> TRUE, todos |-> todos, newTodo |-> newTodo, newDeadline |-> newDeadline,
   editingId |-> editingId, editingText |-> editingText, filter |-> filter,
   mounted |-> mounted, darkMode |-> darkMode]

\* The user brings the other tab to the front.
SwitchTab ==
  /\ otherTab.open
  /\ otherTab' = ThisTab
  /\ todos' = otherTab.todos
  /\ newTodo' = otherTab.newTodo
  /\ newDeadline' = otherTab.newDeadline
  /\ editingId' = otherTab.editingId
  /\ editingText' = otherTab.editingText
  /\ filter' = otherTab.filter
  /\ mounted' = otherTab.mounted
  /\ darkMode' = otherTab.darkMode
  /\ UNCHANGED <<slot, themeSlot, prefersDark>>

TabsInit ==
  /\ \E stored \in InitialSlots : ConstructedFrom(stored)
  /\ ThemeLight
  /\ otherTab = ThisTab

TabsNext ==
  \/ Mount
  \/ SwitchTab
  \/ mounted /\ Reload
  \/ mounted /\ setNewTodo(<<"a">>)
  \/ mounted /\ addTodoFrom(MaxTabLen, TabClock)
  \/ mounted /\ \E id \in RenderedIds : toggleTodoAt(id, 1)
  \/ mounted /\ \E id \in RenderedIds : deleteTodo(id)

SpecTabs == TabsInit /\ [][TabsNext]_vars

(***************************************************************************)
(* The theme next to the task list: every handler, over collections of at  *)
(* most MaxThemeLen tasks, from every stored theme and platform            *)
(* preference.                                                             *)
(***************************************************************************)
ThemeInit ==
  /\ \E stored \in InitialSlots : ConstructedFrom(stored)
  /\ otherTab = NoTab
  /\ prefersDark \in BOOLEAN
  /\ \E stored \in ThemeSlots : ThemeConstructedFrom(stored)

ThemeNext ==
  \/ Mount
  \/ mounted /\ Reload
  \/ mounted /\ setDarkMode
  \/ mounted /\ \E text \in Texts : setNewTodo(text)
  \/ mounted /\ \E day \in 0..MaxDay : setNewDeadline(day)
  \/ mounted /\ \E f \in Filters : setFilter(f)
  \/ mounted /\ addTodoFrom(MaxThemeLen, ThemeClock)
  \/ mounted /\ \E id \in RenderedIds : \E now \in ThemeClock : toggleTodoAt(id, now)
  \/ mounted /\ \E id \in RenderedIds : deleteTodo(id)
  \/ mounted /\ \E i \in 1..Len(filteredTodos) : startEditing(filteredTodos[i])
  \/ mounted /\ \E text \in Texts : setEditingText(text)
  \/ mounted /\ submitEdit
  \/ mounted /\ cancelEdit
  \/ mounted /\ \E activeId \in RenderedIds, overId \in RenderedIds \cup {Undefined} :
                  handleDragEnd(activeId, overId)

SpecTheme == ThemeInit /\ [][ThemeNext]_vars

(***************************************************************************)
(* Vocabulary of the properties.                                           *)
(***************************************************************************)
Positions(ts) == 1..Len(ts)

UniqueIdsIn(ts) == \A i, j \in Positions(ts) : i # j => ts[i].id # ts[j].id

\* The tasks the filter hides, in store order.
HiddenTodos(ts, f) == SelectSeq(ts, LAMBDA todo : ~Shown(todo, f))

\* The sequence without its element at position i (1-based).
DropAt(ts, i) == SubSeq(ts, 1, i - 1) \o SubSeq(ts, i + 1, Len(ts))

\* Position of a task in a collection that holds it once.
PosOf(ts, todo) == CHOOSE i \in Positions(ts) : ts[i] = todo

AllDifferent(ts) == \A i, j \in Positions(ts) : i # j => ts[i] # ts[j]

\* A step in which a rendered task is dropped on another rendered task.
DragOntoVisible ==
  \E activeId \in RenderedIds, overId \in RenderedIds :
    activeId # overId /\ handleDragEnd(activeId, overId)

\* A task as created by addTodo in this session: it owns a deadline key.
\* A task as produced by a load: it owns a completedAt key that is a Date or
\* undefined, and owns no deadline key unless a deadline was stored.
FromLoad(todo) ==
  /\ "completedAt" \in DOMAIN todo
  /\ "deadline" \in DOMAIN todo => todo.deadline.k = "string"
  /\ todo.completed \/ todo.completedAt = Undefined

\* The instant a date field denotes, whatever its representation.
InstantOf(todo, key) ==
  LET x == Get(todo, key)
  IN  IF Truthy(x) THEN [some |-> TRUE, t |-> NewDate(x).v] ELSE [some |-> FALSE, t |-> 0]

SameTask(a, b) ==
  /\ a.id = b.id
  /\ a.text = b.text
  /\ a.completed = b.completed
  /\ \A key \in {"createdAt", "completedAt", "deadline"} : InstantOf(a, key) = InstantOf(b, key)

SameCollection(as, bs) ==
  /\ Len(as) = Len(bs)
  /\ \A i \in Positions(as) : SameTask(as[i], bs[i])

(***************************************************************************)
(* C1: in every reachable state every task has a completion date if and    *)
(* only if it is completed.                                                *)
(***************************************************************************)
C1_CompletedAtIffCompleted ==
  \A i \in Positions(todos) : HasCompletedAt(todos[i]) <=> todos[i].completed

\* A loaded, never toggled task next to a task completed in this session.
C1_Witness ==
  \E i, j \in Positions(todos) :
    /\ todos[i].completed /\ HasCompletedAt(todos[i]) /\ "deadline" \in DOMAIN todos[i]
       /\ todos[i].deadline.k # "string"
    /\ ~todos[j].completed /\ FromLoad(todos[j])

(***************************************************************************)
(* C2: no two tasks of the store share an id, whatever the clock returns   *)
(* at the moments of add.                                                  *)
(***************************************************************************)
C2_UniqueIds == UniqueIdsIn(todos)

(***************************************************************************)
(* C3: a drop on the dragged task itself, or with no resolved target,      *)
(* leaves the collection as it was.                                        *)
(***************************************************************************)
C3_UnresolvedDropIsNoOp ==
  [][\A activeId \in RenderedIds : \A overId \in {activeId, Undefined} :
       handleDragEnd(activeId, overId) => todos' = todos]_vars

(***************************************************************************)
(* C4: under the active or the completed filter, dropping a visible task   *)
(* on another visible task leaves the hidden tasks in the same order among *)
(* themselves.                                                             *)
(***************************************************************************)
C4_HiddenOrderKept ==
  [][(filter \in {"active", "completed"} /\ DragOntoVisible)
       => HiddenTodos(todos', filter) = HiddenTodos(todos, filter)]_vars

(***************************************************************************)
(* C5 as claimed: under a filter, dropping a visible task on another       *)
(* visible task keeps every hidden task before or after every other task   *)
(* of the collection, the dragged task included.  It is stated for         *)
(* collections whose tasks all differ and whose ids are unique.            *)
(***************************************************************************)
C5_HiddenKeepsPlaceAmongAll ==
  [][(filter \in {"active", "completed"} /\ DragOntoVisible
        /\ UniqueIdsIn(todos) /\ AllDifferent(todos))
       => \A i, j \in Positions(todos) :
            (i # j /\ ~Shown(todos[i], filter))
              => (i < j <=> PosOf(todos', todos[i]) < PosOf(todos', todos[j]))]_vars

(***************************************************************************)
(* C5 amended: dropping a visible task on another visible task moves one   *)
(* task of the collection, the first one that carries the dragged id, to   *)
(* the position of the first one that carries the target id; every other   *)
(* task, hidden or visible, keeps its order relative to every other one.   *)
(* It is stated of the array handleDragEnd hands to setTodos, for every     *)
(* reachable store and every pair of rendered tasks.                       *)
(***************************************************************************)
C5_OnlyTheMovedTaskChangesPlace ==
  \A activeId \in RenderedIds, overId \in RenderedIds :
    activeId # overId =>
      LET moved == DragEndTodos(todos, activeId, overId)
          from == FindIndex(todos, activeId) + 1
          to == FindIndex(todos, overId) + 1
      IN  /\ Len(moved) = Len(todos)
          /\ moved[to] = todos[from]
          /\ DropAt(moved, to) = DropAt(todos, from)

\* The active filter hides a task that lies between two visible tasks.
C5_Witness ==
  /\ filter = "active"
  /\ UniqueIdsIn(todos)
  /\ \E i, h, j \in Positions(todos) :
       i < h /\ h < j /\ ~todos[i].completed /\ todos[h].completed /\ ~todos[j].completed

(***************************************************************************)
(* C6: in every reachable state of a mounted instance the 'todos' slot      *)
(* holds the serialization of the whole current collection, in store       *)
(* order, and nothing else.                                                *)
(***************************************************************************)
C6_SlotHoldsCollection ==
  mounted =>
    /\ slot.k = "array"
    /\ Len(slot.v) = Len(todos)
    /\ \A i \in Positions(todos) : slot.v[i] = StringifyTodo(todos[i])

\* Two tasks, one loaded and one added in this session, both in the slot.
C6_Witness ==
  /\ Len(todos) = 2
  /\ FromLoad(todos[1])
  /\ "completedAt" \notin DOMAIN todos[2]
  /\ Len(slot.v) = 2

(***************************************************************************)
(* C7: once the component is mounted, what a startup loads from the slot   *)
(* is the collection that was saved: same ids in the same order, same text *)
(* and completed flag, same instants for createdAt, completedAt and        *)
(* deadline, completedAt absent where it was absent.  (A startup ends with *)
(* todos = StartupTodos(slot).)                                            *)
(***************************************************************************)
C7_RoundTrip == mounted => SameCollection(StartupTodos(slot), todos)

\* A loaded collection of a completed task with a deadline and a task that
\* is not completed and has no deadline.
C7_Witness ==
  /\ mounted
  /\ Len(todos) = 2
  /\ \A i \in Positions(todos) : FromLoad(todos[i])
  /\ \E i, j \in Positions(todos) :
       /\ todos[i].completed /\ "deadline" \in DOMAIN todos[i]
       /\ ~todos[j].completed /\ "deadline" \notin DOMAIN todos[j]

(***************************************************************************)
(* C8: an add with a text that is not blank after trimming appends one     *)
(* task, not completed and without completion date, and leaves the tasks   *)
(* that were there as they were and where they were.                       *)
(***************************************************************************)
C8_AddAppendsOne ==
  [][(Trim(newTodo) # <<>> /\ addTodo)
       => /\ Len(todos') = Len(todos) + 1
          /\ SubSeq(todos', 1, Len(todos)) = todos
          /\ todos'[Len(todos')].completed = FALSE
          /\ ~HasCompletedAt(todos'[Len(todos')])
          /\ todos'[Len(todos')].text = newTodo]_vars

\* A task added in this session after a loaded one.
C8_Witness ==
  /\ Len(todos) = 2
  /\ FromLoad(todos[1])
  /\ ~todos[2].completed
  /\ "completedAt" \notin DOMAIN todos[2]
  /\ "deadline" \in DOMAIN todos[2] /\ todos[2].deadline.k = "Date"
  /\ newTodo = <<>>

(***************************************************************************)
(* C9: an add with an empty or whitespace-only text changes neither the    *)
(* collection nor the slot nor the two pending inputs; the collection      *)
(* never grows while the pending text is blank.                            *)
(***************************************************************************)
C9_BlankAddIsNoOp ==
  [][/\ (Trim(newTodo) = <<>> /\ addTodo) => UNCHANGED <<todos, slot, newTodo, newDeadline>>
     /\ Trim(newTodo) = <<>> => Len(todos') <= Len(todos)]_vars

\* A whitespace-only text and a deadline are pending over a non-empty collection.
C9_Witness ==
  /\ newTodo = <<" ">>
  /\ newDeadline # 0
  /\ Len(todos) >= 1

(***************************************************************************)
(* C10: toggling a task twice in a row returns it to its completed value;  *)
(* a task that started not completed has no completedAt again; a toggle    *)
(* from not completed stamps completedAt with the clock reading, a toggle  *)
(* from completed removes the completedAt key.                             *)
(***************************************************************************)
C10_ToggleTwice ==
  \A k \in Positions(todos) : \A first, second \in Clock :
    LET id == todos[k].id
        once == ToggleTodos(todos, id, first)
        twice == ToggleTodos(once, id, second)
    IN  /\ Len(once) = Len(todos) /\ Len(twice) = Len(todos)
        /\ \A i \in Positions(todos) :
             IF todos[i].id = id
               THEN /\ once[i].completed = ~todos[i].completed
                    /\ twice[i].completed = todos[i].completed
                    /\ ~todos[i].completed =>
                         /\ once[i].completedAt = DateObj(first)
                         /\ "completedAt" \notin DOMAIN twice[i]
                    /\ todos[i].completed =>
                         /\ "completedAt" \notin DOMAIN once[i]
                         /\ twice[i].completedAt = DateObj(second)
               ELSE once[i] = todos[i] /\ twice[i] = todos[i]

\* A loaded task whose completedAt key a toggle from completed has removed:
\* loading leaves the key on every task, un-completing takes it away.
C10_Witness ==
  \E i \in Positions(todos) :
    /\ ~todos[i].completed
    /\ "completedAt" \notin DOMAIN todos[i]
    /\ "deadline" \notin DOMAIN todos[i]

(***************************************************************************)
(* C11: the active view and the completed view partition the collection:   *)
(* every task is in exactly one of them, each view lists its tasks in      *)
(* store order (the k-th task of a kind in the store is the k-th row of    *)
(* its view), the all view is the collection itself, the rendered view is  *)
(* the view of the selected filter, and total = active + completed.        *)
(***************************************************************************)
C11_ViewsPartition ==
  LET activeView == FilterTodos(todos, "active")
      completedView == FilterTodos(todos, "completed")
      \* how many tasks up to position i have the completed value of task i
      Rank(i) == Cardinality({j \in 1..i : todos[j].completed = todos[i].completed})
  IN  /\ FilterTodos(todos, "all") = todos
      /\ Len(activeView) + Len(completedView) = Len(todos)
      /\ \A i \in Positions(todos) :
           IF todos[i].completed
             THEN completedView[Rank(i)] = todos[i] /\ ~Shown(todos[i], "active")
             ELSE activeView[Rank(i)] = todos[i] /\ ~Shown(todos[i], "completed")
      /\ filteredTodos = FilterTodos(todos, filter)
      /\ total = Len(todos)
      /\ active = Len(activeView)
      /\ completed = Len(completedView)
      /\ total = active + completed

\* The active filter is selected over a completed task followed by an active one.
C11_Witness ==
  /\ filter = "active"
  /\ Len(todos) = 2
  /\ todos[1].completed /\ ~todos[2].completed
  /\ active = 1 /\ completed = 1

(***************************************************************************)
(* C12: with the all filter, dropping the row at position s on the row at  *)
(* position t (s # t) stores the collection in which that task sits at     *)
(* position t, the tasks between s and t and the task at t are shifted by  *)
(* one toward s, and all other tasks keep their positions.  It is stated   *)
(* of the array handleDragEnd hands to setTodos (the store itself when it  *)
(* returns early), for every reachable store and every pair of rows.       *)
(***************************************************************************)
MovedTo(ts, s, t) ==
  [i \in 1..Len(ts) |->
     IF i = t THEN ts[s]
     ELSE IF s < t /\ s <= i /\ i < t THEN ts[i + 1]
     ELSE IF t < s /\ t < i /\ i <= s THEN ts[i - 1]
     ELSE ts[i]]

\* The store after the row at position s is dropped on the row at position t.
AfterDrop(ts, s, t) ==
  IF ts[s].id # ts[t].id THEN DragEndTodos(ts, ts[s].id, ts[t].id) ELSE ts

C12_ReorderAll ==
  filter = "all" =>
    \A s, t \in Positions(todos) :
      s # t => AfterDrop(todos, s, t) = MovedTo(todos, s, t)

(***************************************************************************)
(* C13: over a 'todos' slot that holds the empty text, a text that is not  *)
(* JSON or the JSON of a value that is not an array, construction yields   *)
(* the empty collection, mounting keeps it empty and completes, and an add *)
(* with a non-blank text over the empty collection of a mounted instance   *)
(* yields a collection of one task.                                        *)
(***************************************************************************)
C13_MalformedSlotYieldsEmpty ==
  [][/\ (~mounted /\ slot \in MalformedSlots) => todos = <<>>
     /\ (slot \in MalformedSlots /\ Mount) => (todos' = <<>> /\ mounted')
     /\ (mounted /\ todos = <<>> /\ Trim(newTodo) # <<>> /\ addTodo)
          => (Len(todos') = 1 /\ todos'[1].text = newTodo)]_vars

\* An instance constructed over a slot whose text does not parse to an array.
C13_Witness ==
  /\ ~mounted
  /\ slot \in {Unparseable, NonArray}
  /\ todos = <<>>

(***************************************************************************)
(* C14: two tabs constructed over the same slot contents.  Whenever the    *)
(* tab in front changes its collection (an add, a toggle, a delete, or the *)
(* load at its mount), the slot then holds exactly the serialization of    *)
(* that tab's collection, whatever the slot held and whatever the other    *)
(* tab's collection is; and once both tabs are mounted the slot holds the  *)
(* collection of one of them.                                              *)
(***************************************************************************)
C14_LastSaveWins ==
  /\ []((mounted /\ otherTab.mounted)
         => slot \in {Stringify(todos), Stringify(otherTab.todos)})
  /\ [][(otherTab' = otherTab /\ mounted' /\ todos' # todos)
          => slot' = Stringify(todos')]_vars

\* Each tab has added a task of its own; the slot holds the collection of the
\* tab in front and not the task of the other tab.
C14_Witness ==
  /\ mounted /\ otherTab.mounted
  /\ Len(todos) = 1 /\ Len(otherTab.todos) = 1
  /\ todos[1].id # otherTab.todos[1].id
  /\ slot = Stringify(todos)
  /\ \A i \in 1..Len(slot.v) : slot.v[i] # StringifyTodo(otherTab.todos[1])

(***************************************************************************)
(* C15: a commit while a session is active replaces the text of one task,  *)
(* the one the session is for, with the edit buffer, changes no other      *)
(* field of it, no other task and not the order, and ends the session; a   *)
(* cancel ends the session and leaves the collection and the slot as they  *)
(* were; a commit with no active session changes nothing.                  *)
(***************************************************************************)
C15_EditSession ==
  [][/\ (editingId # Null /\ submitEdit) =>
          /\ editingId' = Null
          /\ \/ \E k \in Positions(todos) :
                   /\ todos[k].id = editingId
                   /\ todos' = [todos EXCEPT ![k] = With(todos[k], "text", editingText)]
             \/ /\ \A k \in Positions(todos) : todos[k].id # editingId
                /\ todos' = todos
     /\ cancelEdit => (editingId' = Null /\ todos' = todos /\ slot' = slot)
     /\ (editingId = Null /\ submitEdit) => UNCHANGED vars]_vars

(***************************************************************************)
(* C16: deleting the task of a row removes that task and nothing else: the *)
(* collection afterwards is the previous one without the task at that      *)
(* position, whatever its completed value and whether or not it is being   *)
(* edited, the remaining tasks unchanged and in the same order.            *)
(***************************************************************************)
C16_DeleteRemovesOne ==
  [][\A k \in Positions(todos) :
       deleteTodo(todos[k].id) => todos' = DropAt(todos, k)]_vars

(***************************************************************************)
(* C17: a toggle of the task of a row changes only completed and           *)
(* completedAt of that task, a committed edit changes only the text of     *)
(* the edited task, a reorder changes only positions, and none of them     *)
(* changes a field of any other task; a reload keeps the id and the        *)
(* instants of createdAt and deadline of every task.                       *)
(***************************************************************************)
\* The tasks at the positions other than k are what they were.
OthersKept(k) ==
  /\ Len(todos') = Len(todos)
  /\ \A i \in Positions(todos) : i # k => todos'[i] = todos[i]

\* Two tasks agree on every property whose key is not in keys.
SameBut(a, b, keys) ==
  /\ DOMAIN a \ keys = DOMAIN b \ keys
  /\ \A x \in DOMAIN a \ keys : a[x] = b[x]

\* Two collections hold the same tasks the same number of times.
SameTasks(as, bs) ==
  /\ Len(as) = Len(bs)
  /\ \A i \in Positions(as) :
       Cardinality({j \in Positions(as) : as[j] = as[i]})
         = Cardinality({j \in Positions(bs) : bs[j] = as[i]})

C17_FrameOfMutations ==
  [][/\ \A k \in Positions(todos) :
          toggleTodo(todos[k].id) =>
            /\ OthersKept(k)
            /\ SameBut(todos[k], todos'[k], {"completed", "completedAt"})
     /\ (editingId # Null /\ submitEdit) =>
          \/ \E k \in Positions(todos) :
               /\ todos[k].id = editingId
               /\ OthersKept(k)
               /\ SameBut(todos[k], todos'[k], {"text"})
          \/ todos' = todos
     /\ (\E activeId \in RenderedIds, overId \in RenderedIds \cup {Undefined} :
           handleDragEnd(activeId, overId)) => SameTasks(todos, todos')
     /\ (Reload \/ Mount) =>
          /\ Len(todos') = Len(todos)
          /\ \A i \in Positions(todos) :
               /\ todos'[i].id = todos[i].id
               /\ InstantOf(todos'[i], "createdAt") = InstantOf(todos[i], "createdAt")
               /\ InstantOf(todos'[i], "deadline") = InstantOf(todos[i], "deadline")]_vars

(***************************************************************************)
(* C18: after construction the theme is dark exactly when the 'theme' slot *)
(* holds 'dark' if the slot is present, and when the platform prefers dark *)
(* if it is absent; in a mounted instance the 'theme' slot holds 'dark'    *)
(* when the theme is dark and 'light' otherwise; a theme toggle changes    *)
(* neither the collection nor the 'todos' slot, and no other step of a     *)
(* mounted instance changes the theme or the 'theme' slot.                 *)
(***************************************************************************)
C18_ThemeIndependent ==
  /\ [](~mounted => (darkMode <=> IF themeSlot # NoTheme
                                   THEN themeSlot = Theme("dark")
                                   ELSE prefersDark))
  /\ [](mounted => themeSlot = Theme(IF darkMode THEN "dark" ELSE "light"))
  /\ [][/\ setDarkMode => (darkMode' # darkMode /\ todos' = todos /\ slot' = slot)
        /\ (mounted /\ ~setDarkMode) => (darkMode' = darkMode /\ themeSlot' = themeSlot)]_vars

\* The dark theme was chosen against the platform's preference and a task is
\* in the store.
C18_Witness ==
  /\ mounted
  /\ darkMode /\ ~prefersDark
  /\ themeSlot = Theme("dark")
  /\ Len(todos) = 1 /\ todos[1].completed

(***************************************************************************)
(* C19: under every filter, after the visible row p is dropped on the      *)
(* visible row q (p # q), the filtered view of the stored collection is    *)
(* the previous view with the task of row p moved to row q and the rows in *)
(* between shifted by one.  It is stated of the array handleDragEnd hands  *)
(* to setTodos, for every reachable store, filter and pair of rows.        *)
(***************************************************************************)
\* The store position of the p-th row of the view.
StorePos(ts, f, p) ==
  CHOOSE i \in Positions(ts) :
    Shown(ts[i], f) /\ Cardinality({j \in 1..i : Shown(ts[j], f)}) = p

C19_VisibleSequenceAfterDrag ==
  \A p, q \in Positions(filteredTodos) :
    p # q =>
      FilterTodos(AfterDrop(todos, StorePos(todos, filter, p), StorePos(todos, filter, q)), filter)
        = MovedTo(filteredTodos, p, q)

(***************************************************************************)
(* C20: in every reachable state every task of the store has a text that   *)
(* is not empty after trimming.                                            *)
(***************************************************************************)
C20_TextNeverBlank ==
  \A i \in Positions(todos) : Trim(todos[i].text) # <<>>

(***************************************************************************)
(* C21: the mount of an instance constructed over a malformed or an absent *)
(* 'todos' slot writes the serialization of the empty collection to the    *)
(* slot; no mounted instance, and so no handler, ever sees a slot that is  *)
(* malformed or absent.                                                    *)
(***************************************************************************)
C21_MalformedSlotOverwritten ==
  /\ [](mounted => (slot \notin MalformedSlots /\ slot # NoItem))
  /\ [][(Mount /\ (slot \in MalformedSlots \/ slot = NoItem))
          => slot' = Stringify(<<>>)]_vars

\* A freshly mounted instance over the serialization of the empty collection,
\* as the mount over a malformed or absent slot leaves it.
C21_Witness ==
  /\ mounted
  /\ slot = Stringify(<<>>)
  /\ todos = <<>>
  /\ newTodo = <<>> /\ newDeadline = 0 /\ editingId = Null /\ filter = "all"

(***************************************************************************)
(* C22: over every slot that parses to a collection, the collection the    *)
(* load effect sets at mount is the collection the initializer produced,   *)
(* field by field: same ids, of the same type and value, same dates, same  *)
(* order.                                                                  *)
(***************************************************************************)
C22_LoadPathsAgree ==
  [][(Mount /\ StoredTruthy(slot) /\ ParseOk(slot)) => todos' = todos]_vars

====
